---- MODULE Spec2Model ----
(***************************************************************************)
(* A model of sources/procfs.go of lustre_exporter: the template registry  *)
(* (lustreProcMetrics), path resolution (filepath.Glob), the two value     *)
(* grammars (parseFile, parseStatsFile, parseReadWriteBytes) and the       *)
(* scrape loop (lustreSource.Update) that feeds a sink channel.            *)
(*                                                                         *)
(* A Go string is a sequence of atoms.  An atom is one decimal digit, one  *)
(* separator character (" ", "\n", "/", "_") or one word that the program  *)
(* never looks inside ("read_bytes", "samples", "ost1", ...).              *)
(***************************************************************************)
EXTENDS Integers, Sequences, FiniteSets, TLC

\* ------------------------------------------------------------------ bounds
\* OST instance directories that may exist under obdfilter/.
MaxOst == 2
\* Counter values 0..MaxValue appear in the generated file contents.
MaxValue == 1
\* Update calls that run concurrently on one lustreSource.
MaxCalls == 2

\* ----------------------------------------------------------------- strings
Numerals == <<"0", "1", "2", "3", "4", "5", "6", "7", "8", "9">>

Digit == {Numerals[i] : i \in 1..Len(Numerals)}

DigitVal(c) == (CHOOSE i \in 1..Len(Numerals) : Numerals[i] = c) - 1

RECURSIVE DecValue(_)
DecValue(s) ==
    IF s = <<>> THEN 0
    ELSE 10 * DecValue(SubSeq(s, 1, Len(s) - 1)) + DigitVal(s[Len(s)])

\* The decimal rendering of n: the text the kernel prints for a counter.
RECURSIVE Decimal(_)
Decimal(n) ==
    IF n < 10 THEN <<Numerals[n + 1]>>
    ELSE Decimal(n \div 10) \o <<Numerals[(n % 10) + 1]>>

\* The digits of 1<<64 - 1, the largest value ParseUint(s, 10, 64) returns.
MaxUint64 ==
    <<"1", "8", "4", "4", "6", "7", "4", "4", "0", "7",
      "3", "7", "0", "9", "5", "5", "1", "6", "1", "5">>

RECURSIVE StripZeros(_)
StripZeros(s) == IF Len(s) > 1 /\ s[1] = "0" THEN StripZeros(Tail(s)) ELSE s

\* The digit string t (no leading zero) stands for more than MaxUint64.
OutOfRange(t) ==
    \/ Len(t) > Len(MaxUint64)
    \/ /\ Len(t) = Len(MaxUint64)
       /\ \E i \in 1..Len(t) :
            /\ DigitVal(t[i]) > DigitVal(MaxUint64[i])
            /\ \A k \in 1..(i - 1) : t[k] = MaxUint64[k]

\* strconv.ParseUint(s, 10, 64): a non-empty run of digits, nothing else (no
\* sign, no blank, no empty string), that stands for a value below 1<<64.
ParseUint(s) ==
    IF Len(s) > 0 /\ (\A i \in 1..Len(s) : s[i] \in Digit) /\ ~OutOfRange(StripZeros(s))
    THEN [err |-> "nil", value |-> DecValue(s)]
    ELSE [err |-> "err", value |-> 0]

WhiteSpace == {" ", "\n", "\t"}

\* A conversion handed the content as it was read.
TrimSpaceNone(s) == s

\* strings.TrimSpace
RECURSIVE TrimSpace(_)
TrimSpace(s) ==
    IF s = <<>> THEN s
    ELSE IF s[1] \in WhiteSpace THEN TrimSpace(Tail(s))
    ELSE IF s[Len(s)] \in WhiteSpace THEN TrimSpace(SubSeq(s, 1, Len(s) - 1))
    ELSE s

\* Index of the first atom of s in set cs at or after position i, or 0.
FirstIn(s, cs, i) ==
    LET hits == {k \in i..Len(s) : s[k] \in cs}
    IN  IF hits = {} THEN 0 ELSE CHOOSE k \in hits : \A j \in hits : k <= j

\* strings.Split(s, sep) for a one-character separator.
RECURSIVE Split(_, _)
Split(s, sep) ==
    LET i == FirstIn(s, {sep}, 1)
    IN  IF i = 0 THEN <<s>>
        ELSE <<SubSeq(s, 1, i - 1)>> \o Split(SubSeq(s, i + 1, Len(s)), sep)

\* regexp.MustCompile(" +").Split(s, -1): cut at every run of blanks.
RECURSIVE SplitBlanks(_)
SplitBlanks(s) ==
    LET i == FirstIn(s, {" "}, 1)
    IN  IF i = 0 THEN <<s>>
        ELSE LET rest == {k \in i..Len(s) : s[k] # " "}
                 j    == IF rest = {} THEN Len(s) + 1
                         ELSE CHOOSE k \in rest : \A m \in rest : k <= m
             IN  <<SubSeq(s, 1, i - 1)>> \o SplitBlanks(SubSeq(s, j, Len(s)))

\* regexp.MustCompile(re).FindString(s) for the two patterns of the program,
\* "<word> .*", written <<word, " ", ".*">>: the leftmost place where the
\* word is followed by a blank, up to the end of that line ("." does not
\* match "\n").  The empty string when there is none.
FindString(re, s) ==
    LET hits == {k \in 1..(Len(s) - 1) : s[k] = re[1] /\ s[k + 1] = re[2]}
    IN  IF hits = {} THEN <<>>
        ELSE LET i  == CHOOSE k \in hits : \A j \in hits : k <= j
                 nl == FirstIn(s, {"\n"}, i)
             IN  SubSeq(s, i, IF nl = 0 THEN Len(s) ELSE nl - 1)

\* All the orders in which a Go "range" may visit the keys of a map.
Perms(S) ==
    {p \in [1..Cardinality(S) -> S] :
        \A i, j \in 1..Cardinality(S) : i # j => p[i] # p[j]}

RECURSIVE Flatten(_)
Flatten(ss) == IF ss = <<>> THEN <<>> ELSE Head(ss) \o Flatten(Tail(ss))

\* ------------------------------------------------------------------- paths
\* filepath.Clean, as far as the program's paths need it: runs of "/" become
\* one and a trailing "/" is dropped (no "." or ".." element ever occurs).
RECURSIVE Clean(_)
Clean(p) ==
    IF Len(p) <= 1 THEN p
    ELSE IF p[1] = "/" /\ p[2] = "/" THEN Clean(Tail(p))
    ELSE IF Len(p) = 2 /\ p[2] = "/" THEN <<p[1]>>
    ELSE <<p[1]>> \o Clean(Tail(p))

\* filepath.Join: the non-empty elements joined by "/", then cleaned.
RECURSIVE JoinRaw(_)
JoinRaw(elems) ==
    IF elems = <<>> THEN <<>>
    ELSE IF Head(elems) = <<>> THEN JoinRaw(Tail(elems))
    ELSE LET rest == JoinRaw(Tail(elems))
         IN  IF rest = <<>> THEN Head(elems) ELSE Head(elems) \o <<"/">> \o rest

Join(elems) == Clean(JoinRaw(elems))

\* Directory entries in the byte order in which Readdirnames' result is sorted.
NameOrder ==
    <<"MDS", "MGS", "blocksize", "fs", "kbytesfree", "lustre", "mds", "mgs",
      "obdfilter", "osd", "ost1", "ost2", "ost3", "ost4", "proc", "stats">>

SortNames(S) == SelectSeq(NameOrder, LAMBDA n : n \in S)

\* p names the directory d itself or something below it.
Within(d, p) ==
    /\ Len(p) >= Len(d)
    /\ SubSeq(p, 1, Len(d)) = d
    /\ (Len(p) > Len(d) => p[Len(d) + 1] = "/")

\* The filesystem as the resolver sees it: fs.files, the paths of the files
\* that exist (a directory exists when a file lies below it), and fs.denied,
\* the directories whose stat/open/read fails (permission denied, I/O error),
\* which also hides whatever lies below them.
Blocked(fs, p) == \E d \in fs.denied : Within(d, p)

IsDir(fs, p) == \E f \in fs.files : Within(p, f) /\ f # p

\* os.Lstat / os.Stat succeed.
StatOK(fs, p) == (p \in fs.files \/ IsDir(fs, p)) /\ ~Blocked(fs, p)

ReadDirNames(fs, d) ==
    SortNames({f[Len(d) + 2] : f \in {g \in fs.files : Within(d, g) /\ g # d}})

hasMeta(p) == \E i \in 1..Len(p) : p[i] \in {"*", "?", "["}

\* filepath.Match for one path element: "*" matches any name, a name itself.
Match(pattern, name) == pattern = <<"*">> \/ pattern = <<name>>

\* filepath.Split: the directory with its trailing "/", and the file.
SplitPath(p) ==
    LET sl == {k \in 1..Len(p) : p[k] = "/"}
        i  == IF sl = {} THEN 0 ELSE CHOOSE k \in sl : \A j \in sl : j <= k
    IN  [dir |-> SubSeq(p, 1, i), file |-> SubSeq(p, i + 1, Len(p))]

cleanGlobPath(dir) ==
    IF dir = <<>> THEN <<".">>
    ELSE IF dir = <<"/">> THEN dir
    ELSE SubSeq(dir, 1, Len(dir) - 1)

\* filepath.glob: the entries of dir that match pattern, appended to matches.
\* Every filesystem error is ignored: the matches so far are returned.
glob(fs, dir, pattern, matches) ==
    IF ~StatOK(fs, dir) \/ ~IsDir(fs, dir) THEN matches
    ELSE LET names == ReadDirNames(fs, dir)
             hit   == SelectSeq(names, LAMBDA n : Match(pattern, n))
         IN  matches \o [k \in 1..Len(hit) |-> Join(<<dir, <<hit[k]>>>>)]

\* The tail of filepath.Glob: the directory part is itself expanded when it
\* holds a wildcard, and the file part is matched in every directory found.
RECURSIVE GlobPaths(_, _)
globIn(fs, dirs, file) == Flatten([k \in 1..Len(dirs) |-> glob(fs, dirs[k], file, <<>>)])

globSplit(fs, dir, file) ==
    IF ~hasMeta(dir) THEN glob(fs, dir, file, <<>>)
    ELSE globIn(fs, GlobPaths(fs, dir), file)

GlobPaths(fs, pattern) ==
    IF ~hasMeta(pattern)
    THEN IF StatOK(fs, pattern) THEN <<pattern>> ELSE <<>>
    ELSE globSplit(fs, cleanGlobPath(SplitPath(pattern).dir), SplitPath(pattern).file)

\* filepath.Glob: the only error it returns is ErrBadPattern (a malformed
\* character class); the empty sequence is Go's nil slice.
Glob(fs, pattern) ==
    IF \E i \in 1..Len(pattern) : pattern[i] = "["
    THEN [paths |-> <<>>, err |-> "err"]
    ELSE [paths |-> GlobPaths(fs, pattern), err |-> "nil"]

\* ---------------------------------------------------------------- registry
samplesHelp == "Total number of times the given metric has been collected."
maximumHelp == "The maximum value retrieved for the given metric."
minimumHelp == "The minimum value retrieved for the given metric."
totalHelp == "The sum of all values collected for the given metric."

newLustreProcMetric(name, source, path, helpText) ==
    [subsystem |-> "", name |-> name, source |-> source, path |-> path,
     helpText |-> helpText]

\* The template maps, one path pattern per node role.  Of the 22 OSS metrics
\* the model keeps "stats" (the statistics grammar) and "kbytesfree" (a
\* scalar under the wildcard pattern); of the 7 MGS metrics "blocksize" (a
\* scalar under a pattern without wildcard, written with a trailing "/").
\* The 7 MDS templates, the MGS ones again under "mds/MDS/osd", are left out.
OSSMetricMap ==
    [path |-> <<"obdfilter", "/", "*">>,
     metrics |-> ("kbytesfree" :> "Number of kilobytes allocated to the pool")
              @@ ("stats" :> "A collection of statistics specific to Lustre")]

MGSMetricMap ==
    [path |-> <<"mgs", "/", "MGS", "/", "osd", "/">>,
     metrics |-> ("blocksize" :> "Filesystem block size in bytes")]

\* generate*MetricTemplates: one descriptor per entry of the map, appended in
\* the order in which "range" visits the map, which Go leaves unspecified.
generateMetricTemplates(list, source, metricMap) ==
    {list \o [i \in 1..Len(o) |->
                newLustreProcMetric(<<o[i]>>, source, metricMap.path,
                                    metricMap.metrics[o[i]])]
        : o \in Perms(DOMAIN metricMap.metrics)}

generateOSSMetricTemplates(list) == generateMetricTemplates(list, "OSS", OSSMetricMap)

generateMGSMetricTemplates(list) == generateMetricTemplates(list, "MGS", MGSMetricMap)

\* NewLustreSource: the sources it may return.
NewLustreSource ==
    {[basePath |-> <<"/", "proc", "/", "fs", "/", "lustre">>, lustreProcMetrics |-> l2]
        : l2 \in UNION {generateMGSMetricTemplates(l1)
                            : l1 \in generateOSSMetricTemplates(<<>>)}}

\* ----------------------------------------------------------------- parsing
\* What the handler closure of Update sends on the channel: the arguments of
\* constMetric (node role, node instance name, metric name, help, value).
constMetric(nodeType, nodeName, name, helpText, value) ==
    [nodeType |-> nodeType, nodeName |-> nodeName, name |-> name,
     helpText |-> helpText, value |-> value]

NilMap == [k \in {} |-> 0]

\* strconv.ParseUint(bytesSplit[k]) with Go's 0-based index k: indexing past
\* the end of the slice panics (index out of range).
FieldUint(bytesSplit, k) ==
    IF k < Len(bytesSplit) THEN ParseUint(bytesSplit[k + 1])
    ELSE [err |-> "panic", value |-> 0]

SamplesIndex == 1
MinimumIndex == 4
MaximumIndex == 5
TotalIndex == 6

\* Lines 199-223: the four fields in turn, the first failure ending the parse.
statsMap(samples, minimum, maximum, total) ==
    IF samples.err # "nil" THEN [err |-> samples.err, metricMap |-> NilMap]
    ELSE IF minimum.err # "nil" THEN [err |-> minimum.err, metricMap |-> NilMap]
    ELSE IF maximum.err # "nil" THEN [err |-> maximum.err, metricMap |-> NilMap]
    ELSE IF total.err # "nil" THEN [err |-> total.err, metricMap |-> NilMap]
    ELSE [err |-> "nil",
          metricMap |->
               ("samples_total" :> (samplesHelp :> samples.value))
            @@ ("minimum_size_bytes" :> (minimumHelp :> minimum.value))
            @@ ("maximum_size_bytes" :> (maximumHelp :> maximum.value))
            @@ ("total_bytes" :> (totalHelp :> total.value))]

\* Lines 195-214.
parseFields(bytesSplit) ==
    statsMap(FieldUint(bytesSplit, SamplesIndex), FieldUint(bytesSplit, MinimumIndex),
             FieldUint(bytesSplit, MaximumIndex), FieldUint(bytesSplit, TotalIndex))

\* Lines 185-195.
parseMatch(bytesString) ==
    IF Len(bytesString) = 0 THEN [err |-> "nil", metricMap |-> NilMap]
    ELSE parseFields(SplitBlanks(bytesString))

parseReadWriteBytes(regexString, statsFile) ==
    parseMatch(FindString(regexString, statsFile))

ReadRegex == <<"read_bytes", " ", ".*">>
WriteRegex == <<"write_bytes", " ", ".*">>

\* A merge that files each direction's numbers under the other direction.
mergeStatsCrossed(readStatsMap, writeStatsMap) ==
    IF readStatsMap.err # "nil" THEN [err |-> readStatsMap.err, metricMap |-> NilMap]
    ELSE IF writeStatsMap.err # "nil" THEN [err |-> writeStatsMap.err, metricMap |-> NilMap]
    ELSE [err |-> "nil",
          metricMap |-> ("read" :> writeStatsMap.metricMap)
                     @@ ("write" :> readStatsMap.metricMap)]

\* Lines 235-248.
mergeStats(readStatsMap, writeStatsMap) ==
    IF readStatsMap.err # "nil" THEN [err |-> readStatsMap.err, metricMap |-> NilMap]
    ELSE IF writeStatsMap.err # "nil" THEN [err |-> writeStatsMap.err, metricMap |-> NilMap]
    ELSE [err |-> "nil",
          metricMap |-> ("read" :> readStatsMap.metricMap)
                     @@ ("write" :> writeStatsMap.metricMap)]

\* rd is what ioutil.ReadFile(path) returned: [err, data].
parseStatsFile(rd) ==
    IF rd.err # "nil" THEN [err |-> rd.err, metricMap |-> NilMap]
    ELSE mergeStats(parseReadWriteBytes(ReadRegex, rd.data),
                    parseReadWriteBytes(WriteRegex, rd.data))

\* The handler calls of the three nested "range" loops of parseFile over
\* metricMap, in every order Go's map iteration may take.
DetailCalls(nodeType, nodeName, metricName, detailMap) ==
    {[i \in 1..Len(o) |-> constMetric(nodeType, nodeName, metricName, o[i], detailMap[o[i]])]
        : o \in Perms(DOMAIN detailMap)}

RECURSIVE StatCalls(_, _, _, _, _)
StatCalls(nodeType, nodeName, statType, statMap, keys) ==
    IF keys = <<>> THEN {<<>>}
    ELSE {a \o b :
            a \in DetailCalls(nodeType, nodeName, <<statType, "_", Head(keys)>>,
                              statMap[Head(keys)]),
            b \in StatCalls(nodeType, nodeName, statType, statMap, Tail(keys))}

RECURSIVE TypeCalls(_, _, _, _)
TypeCalls(nodeType, nodeName, metricMap, statTypes) ==
    IF statTypes = <<>> THEN {<<>>}
    ELSE {a \o b :
            a \in UNION {StatCalls(nodeType, nodeName, Head(statTypes),
                                   metricMap[Head(statTypes)], ko)
                            : ko \in Perms(DOMAIN metricMap[Head(statTypes)])},
            b \in TypeCalls(nodeType, nodeName, metricMap, Tail(statTypes))}

RangeCalls(nodeType, nodeName, metricMap) ==
    UNION {TypeCalls(nodeType, nodeName, metricMap, to) : to \in Perms(DOMAIN metricMap)}

\* Lines 265-269.
singleCalls(nodeType, nodeName, name, helpText, convertedValue) ==
    IF convertedValue.err # "nil" THEN {[err |-> convertedValue.err, calls |-> <<>>]}
    ELSE {[err |-> "nil",
           calls |-> <<constMetric(nodeType, nodeName, name, helpText,
                                   convertedValue.value)>>]}

\* Lines 272-283.
statsCalls(nodeType, nodeName, st) ==
    IF st.err # "nil" THEN {[err |-> st.err, calls |-> <<>>]}
    ELSE {[err |-> "nil", calls |-> c] : c \in RangeCalls(nodeType, nodeName, st.metricMap)}

\* Lines 253-285, with pathElements split.
parseElements(nodeType, metricType, pathElements, helpText, rd) ==
    IF Len(pathElements) < 1 THEN {[err |-> "err", calls |-> <<>>]}
    ELSE IF Len(pathElements) - 2 < 0 THEN {[err |-> "panic", calls |-> <<>>]}
    ELSE CASE metricType = "single" ->
                IF rd.err # "nil" THEN {[err |-> rd.err, calls |-> <<>>]}
                ELSE singleCalls(nodeType, pathElements[Len(pathElements) - 1],
                                 pathElements[Len(pathElements)], helpText,
                                 ParseUint(TrimSpace(rd.data)))
           [] metricType = "stats" ->
                statsCalls(nodeType, pathElements[Len(pathElements) - 1],
                           parseStatsFile(rd))
           [] OTHER -> {[err |-> "nil", calls |-> <<>>]}

\* parseFile: the outcomes it may have, each [err, calls]: the error it
\* returns ("nil", "err", or "panic" when it does not return: an index out of
\* range) and the handler calls it made, in order.  rd is what ioutil.ReadFile
\* returns for path when the file is read.
parseFile(nodeType, metricType, path, helpText, rd) ==
    parseElements(nodeType, metricType, Split(path, "/"), helpText, rd)

\* The switch of Update on metric.name.
MetricTypeOf(name) == IF name = <<"stats">> THEN "stats" ELSE "single"

\* ------------------------------------------------------------- environment
\* The files the registry's patterns can match, and what they may hold.
LustreRoot == <<"/", "proc", "/", "fs", "/", "lustre">>

OstName(i) == <<"ost1", "ost2", "ost3", "ost4">>[i]

OstDir(i) == LustreRoot \o <<"/", "obdfilter", "/", OstName(i)>>

MgsDir == LustreRoot \o <<"/", "mgs", "/", "MGS", "/", "osd">>

\* Every OST may expose stats; the first one may expose kbytesfree too; the
\* management server may expose blocksize.
CandidateFiles ==
    {OstDir(i) \o <<"/", "stats">> : i \in 1..MaxOst}
        \cup {OstDir(1) \o <<"/", "kbytesfree">>, MgsDir \o <<"/", "blocksize">>}

CandidateDirs ==
    {LustreRoot \o <<"/", "obdfilter">>, MgsDir} \cup {OstDir(i) : i \in 1..MaxOst}

\* What a walk may find: any set of the files, and at most one directory
\* that cannot be read.
FsViews ==
    {[files |-> f, denied |-> d] :
        f \in SUBSET CandidateFiles,
        d \in {{}} \cup {{x} : x \in CandidateDirs}}

\* The walk for pattern met a directory it could not read: an existing
\* directory on the pattern's way.  (An error other than "no match".)
OnTheWay(pattern, d) ==
    LET ps == Split(pattern, "/")
        ds == Split(d, "/")
    IN  /\ Len(ds) < Len(ps)
        /\ \A k \in 1..Len(ds) : ps[k] = <<"*">> \/ ps[k] = ds[k]

WalkError(fs, pattern) ==
    \E d \in fs.denied : OnTheWay(pattern, d) /\ IsDir([fs EXCEPT !.denied = {}], d)

\* What resolving pattern may find, over every state of the filesystem: Glob's
\* result and whether the walk met an error.
ResolveOutcomes(pattern) ==
    {[g |-> Glob(fs, pattern), walkError |-> WalkError(fs, pattern)] : fs \in FsViews}

\* The patterns Update builds (line 153), each with its outcomes.
UpdatePatterns ==
    UNION {{Join(<<l.basePath, l.lustreProcMetrics[k].path, l.lustreProcMetrics[k].name>>)
                : k \in 1..Len(l.lustreProcMetrics)} : l \in NewLustreSource}

ResolveTable == [pattern \in UpdatePatterns |-> ResolveOutcomes(pattern)]

Words(ws) == Flatten([k \in 1..Len(ws) |-> IF k = 1 THEN ws[k] ELSE <<" ">> \o ws[k]])

\* "<name> S samples [bytes] MIN MAX SUM"
StatsLine(name, s, mn, mx, sm) ==
    Words(<<<<name>>, Decimal(s), <<"samples">>, <<"[bytes]">>,
            Decimal(mn), Decimal(mx), Decimal(sm)>>)

SnapshotLine == Words(<<<<"snapshot_time">>, <<"1", "5">>, <<"secs.usecs">>>>)

\* A file: its lines, each ended by "\n".
Lines(ls) == Flatten([k \in 1..Len(ls) |-> ls[k] \o <<"\n">>])

ReadOK(data) == [err |-> "nil", data |-> data]

\* ioutil.ReadFile failed: the file vanished after it was matched, or cannot
\* be read.
ReadFailed == [err |-> "err", data |-> <<>>]

\* The contents the scrape loop is run against.
ScalarGood == <<"4", "2", "\n">>
ScalarBad == <<"abc">>
StatsGood == Lines(<<SnapshotLine, StatsLine("read_bytes", 3, 10, 100, 150)>>)
StatsNoLines == Lines(<<SnapshotLine>>)
StatsShort == Lines(<<SnapshotLine, Words(<<<<"read_bytes">>, <<"3">>, <<"samples">>>>)>>)
StatsNotNumeric == Lines(<<SnapshotLine,
                           Words(<<<<"read_bytes">>, <<"3">>, <<"samples">>, <<"[bytes]">>,
                                   <<"1", "0">>, <<"many">>, <<"1", "5", "0">>>>)>>)

ReadOutcomes(name) ==
    {ReadFailed} \cup
        {ReadOK(d) : d \in IF name = <<"stats">>
                           THEN {StatsGood, StatsNoLines, StatsShort, StatsNotNumeric}
                           ELSE {ScalarGood, ScalarBad}}

\* ------------------------------------------------------------------- state
VARIABLES
    lustreProcMetrics,  \* lustreSource.lustreProcMetrics, the template registry
    basePath,           \* lustreSource.basePath
    pc,                 \* the Update call: "Idle", "Loop" (about to resolve
                        \* descriptor idx), "Paths" (about to parse paths[pidx]),
                        \* "Crashed" (a panic left Update)
    idx,                \* position of the outer loop in lustreProcMetrics
    paths,              \* the paths Glob returned for descriptor idx
    pidx,               \* position of the inner loop in paths
    metricType,         \* Update's local metricType
    ret,                \* how the last Update call ended: "none" (no call
                        \* yet, or one running), "nil", "err", "panic"
    sink,               \* what the channel received from the current (or the
                        \* last) Update call, in order
    origin,             \* for each element of sink: <<d, p>>, the positions of
                        \* the descriptor in the registry and of the path in
                        \* Glob's result whose parse sent it
    failedAt,           \* <<descriptor, path>> positions of the failed read or
                        \* parse of this call, <<>> when there is none
    noMatch,            \* descriptors of this call for which Glob returned nil
    walkFailed,         \* a walk of this call met an error other than "no match"
    failedRead,         \* what ioutil.ReadFile returned to the parseFile that failed
    arg,                \* a single parseFile call: its arguments
    out,                \* and its outcome
    procfs,                 \* the filesystem concurrent Update calls run against
    call,               \* the locals of each concurrent Update call
    mt,                 \* the metricType variables of the concurrent calls
    alone               \* what one Update call, run alone against procfs, does

srcVars == <<lustreProcMetrics, basePath>>
updVars == <<pc, idx, paths, pidx, metricType, ret, sink, origin, failedAt,
             noMatch, walkFailed, failedRead>>
parseVars == <<arg, out>>
concVars == <<procfs, call, mt, alone>>

NoRead == [err |-> "none", data |-> <<>>]
NoCall == [state |-> "none"]
NoFs == [files |-> {}, denied |-> {}, content |-> <<>>]

NoParse == arg = NoCall /\ out = NoCall

NoConc == procfs = NoFs /\ call = <<>> /\ mt = <<>> /\ alone = NoCall

UpdateIdle ==
    /\ pc = "Idle" /\ idx = 0 /\ paths = <<>> /\ pidx = 0
    /\ metricType = "single" /\ ret = "none"
    /\ sink = <<>> /\ origin = <<>> /\ failedAt = <<>>
    /\ noMatch = {} /\ walkFailed = FALSE /\ failedRead = NoRead

SourceInit ==
    \E l \in NewLustreSource :
        /\ lustreProcMetrics = l.lustreProcMetrics
        /\ basePath = l.basePath

\* ------------------------------------------------------------------ Update
\* Lines 150-152: a call of Update starts its pass with an empty channel.
UpdateCall ==
    /\ pc = "Idle"
    /\ pc' = "Loop"
    /\ idx' = 1
    /\ paths' = <<>>
    /\ pidx' = 0
    /\ metricType' = "single"
    /\ ret' = "none"
    /\ sink' = <<>>
    /\ origin' = <<>>
    /\ failedAt' = <<>>
    /\ noMatch' = {}
    /\ walkFailed' = FALSE
    /\ failedRead' = NoRead
    /\ UNCHANGED <<srcVars, parseVars, concVars>>

\* A loop that took "no path" for a failure of Glob.
GlobVerdictNoMatchFails(g) ==
    IF g.err # "nil" \/ g.paths = <<>> THEN "return" ELSE "iterate"

\* Lines 154-159: what the loop does with Glob's result.
GlobVerdict(g) ==
    IF g.err # "nil" THEN "return"
    ELSE IF g.paths = <<>> THEN "continue"
    ELSE "iterate"

IndexOf(ps, x) == CHOOSE k \in 1..Len(ps) : ps[k] = x

\* A range that walked the paths from the last to the first.
PathAtReversed(ps, i) == ps[Len(ps) + 1 - i]

\* The element "range paths" yields in its i-th iteration.
PathAt(ps, i) == ps[i]

\* A channel emptied by a parse that sent nothing.
SendOrDiscard(received, calls) == IF calls = <<>> THEN <<>> ELSE received \o calls

\* The handler: "ch <- s.constMetric(...)" appends to what the channel received.
Send(received, calls) == received \o calls

\* Update is left (a return, or a panic passing through): its locals are gone.
Leave(how, result) ==
    /\ pc' = how /\ ret' = result
    /\ idx' = 0 /\ paths' = <<>> /\ pidx' = 0

\* Control leaves descriptor i's iteration of the outer loop: on to the next
\* descriptor, or "return nil" (line 176) after the last.
AfterDescriptor(i) ==
    IF i < Len(lustreProcMetrics)
    THEN /\ pc' = "Loop" /\ idx' = i + 1 /\ ret' = ret
         /\ paths' = <<>> /\ pidx' = 0
    ELSE Leave("Idle", "nil")

\* Lines 152-159: the next descriptor is resolved against the filesystem as
\* it is now.
Resolve ==
    /\ pc = "Loop"
    /\ LET metric == lustreProcMetrics[idx]
           pattern == Join(<<basePath, metric.path, metric.name>>)
       IN  \E o \in ResolveTable[pattern] :
        LET g == o.g
            v == GlobVerdict(g)
        IN  /\ walkFailed' = (walkFailed \/ o.walkError)
            /\ noMatch' = IF g.err = "nil" /\ g.paths = <<>> THEN noMatch \cup {idx}
                          ELSE noMatch
            /\ CASE v = "return" ->
                      /\ Leave("Idle", "err") /\ failedAt' = <<idx, 0>>
                 [] v = "continue" ->
                      /\ AfterDescriptor(idx)
                      /\ UNCHANGED failedAt
                 [] OTHER ->
                      /\ pc' = "Paths" /\ paths' = g.paths /\ pidx' = 1
                      /\ UNCHANGED <<idx, ret, failedAt>>
    /\ UNCHANGED <<metricType, sink, origin, failedRead, srcVars, parseVars, concVars>>

\* Lines 160-174: one iteration of the inner loop: the switch, parseFile with
\* the sending handler, and the check of its error.
ParsePath ==
    /\ pc = "Paths"
    /\ LET metric == lustreProcMetrics[idx]
           path == PathAt(paths, pidx)
       IN  \E rd \in ReadOutcomes(metric.name) :
            \E r \in parseFile(metric.source, MetricTypeOf(metric.name), path,
                               metric.helpText, rd) :
                /\ metricType' = MetricTypeOf(metric.name)
                /\ failedRead' = IF r.err = "nil" THEN failedRead ELSE rd
                /\ sink' = Send(sink, r.calls)
                /\ origin' = Send(origin, [k \in 1..Len(r.calls) |->
                                              <<idx, IndexOf(paths, path)>>])
                /\ CASE r.err = "panic" ->
                          /\ Leave("Crashed", "panic") /\ failedAt' = <<idx, pidx>>
                     [] r.err = "err" ->
                          /\ Leave("Idle", "err") /\ failedAt' = <<idx, pidx>>
                     [] OTHER ->
                          IF pidx < Len(paths)
                          THEN /\ pidx' = pidx + 1
                               /\ UNCHANGED <<pc, idx, paths, ret, failedAt>>
                          ELSE /\ AfterDescriptor(idx)
                               /\ UNCHANGED failedAt
    /\ UNCHANGED <<noMatch, walkFailed, srcVars, parseVars, concVars>>

Init ==
    /\ SourceInit
    /\ UpdateIdle
    /\ NoParse
    /\ NoConc

Next == UpdateCall \/ Resolve \/ ParsePath

vars == <<srcVars, updVars, parseVars, concVars>>

Spec == Init /\ [][Next]_vars

\* --------------------------------------------------------- parseFile alone
\* One call of parseFile, as Update makes it (lines 161-170), on arguments
\* drawn from the registry, the paths below and the file contents below.
Fields(s, mn, mx, sm) == [samples |-> s, minimum |-> mn, maximum |-> mx, total |-> sm]

\* Well-formed lines, each with the numbers it was written from.
WellFormed(name) ==
    {[line |-> StatsLine(name, s, mn, mn + 2, mn + 5), fields |-> Fields(s, mn, mn + 2, mn + 5)] :
        s \in 0..MaxValue, mn \in 0..MaxValue}

ReadExample == StatsLine("read_bytes", 3, 10, 100, 150)
WriteExample == StatsLine("write_bytes", 2, 5, 50, 55)

\* The way the kernel pads the columns: runs of blanks between the fields.
ReadPadded ==
    <<"read_bytes", " ", " ", " ", "3", " ", "samples", " ", "[bytes]", " ",
      "1", "0", " ", " ", "1", "0", "0", " ", "1", "5", "0">>

\* Lines that do not follow "<name> S samples [unit] MIN MAX SUM": cut short,
\* without the unit, or with a field that is no number.
Malformed(name) ==
    {Words(<<<<name>>, <<"3">>, <<"samples">>>>),
     Words(<<<<name>>, <<"3">>>>),
     <<name, " ">>,
     Words(<<<<name>>, <<"3">>, <<"samples">>, <<"1", "0">>, <<"1", "0", "0">>, <<"1", "5", "0">>>>),
     Words(<<<<name>>, <<"3">>, <<"samples">>, <<"[bytes]">>, <<"1", "0">>, <<"1", "0", "0">>>>),
     Words(<<<<name>>, <<"few">>, <<"samples">>, <<"[bytes]">>, <<"1">>, <<"2">>, <<"3">>>>),
     Words(<<<<name>>, <<"3">>, <<"samples">>, <<"[bytes]">>, <<"-", "1">>, <<"2">>, <<"3">>>>),
     Words(<<<<name>>, <<"3">>, <<"samples">>, <<"[bytes]">>, <<"1">>, <<"many">>, <<"3">>>>),
     Words(<<<<name>>, <<"3">>, <<"samples">>, <<"[bytes]">>, <<"1">>, <<"2">>, <<"1", ".", "5">>>>)}

ReadCases ==
    WellFormed("read_bytes")
        \cup {[line |-> ReadExample, fields |-> Fields(3, 10, 100, 150)],
              [line |-> ReadPadded, fields |-> Fields(3, 10, 100, 150)]}

WriteCases ==
    WellFormed("write_bytes") \cup {[line |-> WriteExample, fields |-> Fields(2, 5, 50, 55)]}

ReadLines == {c.line : c \in ReadCases}
WriteLines == {c.line : c \in WriteCases}

StatsContents ==
    {Lines(<<SnapshotLine>> \o r \o w) :
        r \in {<<>>} \cup {<<l>> : l \in ReadLines \cup Malformed("read_bytes")},
        w \in {<<>>} \cup {<<l>> : l \in WriteLines \cup Malformed("write_bytes")}}

\* 1<<64: one more than a uint64 holds.
TooLarge == SubSeq(MaxUint64, 1, Len(MaxUint64) - 1) \o <<"6">>

ScalarContents ==
    {Decimal(v) \o <<"\n">> : v \in 0..MaxValue}
        \cup {ScalarGood, <<"7">>, <<" ", "1", "0", " ", "\n">>, <<"0", "7", "\n">>,
              ScalarBad, <<>>, <<"\n">>, <<"-", "1", "\n">>, <<"1", " ", "2", "\n">>,
              TooLarge \o <<"\n">>}

ArgReads(name) ==
    {ReadFailed} \cup
        {ReadOK(d) : d \in IF name = <<"stats">> THEN StatsContents ELSE ScalarContents}

\* The path Glob returns for the descriptor under the first OST (or the
\* management server), a relative path of two elements, and a path of one.
ArgPaths(metric) ==
    {Join(<<IF metric.source = "OSS" THEN OstDir(1) ELSE MgsDir, metric.name>>),
     Join(<<<<OstName(1)>>, metric.name>>),
     metric.name}

InitParse ==
    /\ SourceInit
    /\ UpdateIdle
    /\ NoConc
    /\ \E k \in 1..Len(lustreProcMetrics) :
        LET metric == lustreProcMetrics[k]
        IN  arg \in {[state |-> "call", metric |-> metric, path |-> p, rd |-> rd] :
                        p \in ArgPaths(metric), rd \in ArgReads(metric.name)}
    /\ out = [state |-> "ready", err |-> "none", calls |-> <<>>]

ParseFileCall ==
    /\ arg # NoCall
    /\ out.state = "ready"
    /\ \E r \in parseFile(arg.metric.source, MetricTypeOf(arg.metric.name), arg.path,
                           arg.metric.helpText, arg.rd) :
        out' = [state |-> "done", err |-> r.err, calls |-> r.calls]
    /\ UNCHANGED <<arg, srcVars, updVars, concVars>>

NextParse == ParseFileCall

SpecParse == InitParse /\ [][NextParse]_vars

\* ------------------------------------------------------ concurrent Update
\* MaxCalls goroutines each call Update once on the same lustreSource while
\* the filesystem stays as it is.
Calls == 1..MaxCalls

Range(f) == {f[k] : k \in DOMAIN f}

\* ioutil.ReadFile against a filesystem with contents.
ReadFile(f, path) ==
    IF path \in f.files /\ ~Blocked(f, path) THEN ReadOK(f.content[path]) ELSE ReadFailed

\* The filesystems of the concurrent runs: any of their files, each with a
\* content the grammar of its metric accepts or rejects.
ConcContents(path) ==
    IF path[Len(path)] = "stats" THEN {StatsGood, StatsNotNumeric}
    ELSE {ScalarGood, ScalarBad}

\* The files of the concurrent runs: stats under the first and the last OST,
\* kbytesfree under the first, blocksize under the management server.
ConcFiles ==
    {OstDir(1) \o <<"/", "stats">>, OstDir(MaxOst) \o <<"/", "stats">>,
     OstDir(1) \o <<"/", "kbytesfree">>, MgsDir \o <<"/", "blocksize">>}

ConcFs ==
    UNION {{[files |-> f, denied |-> {}, content |-> c] :
                c \in {g \in [f -> {StatsGood, StatsNotNumeric, ScalarGood, ScalarBad}] :
                        \A x \in f : g[x] \in ConcContents(x)}}
            : f \in SUBSET ConcFiles}

\* One metricType for every call, as a field of lustreSource would be.
MetricTypeShared(c) == 1

\* metricType is declared in Update's body (line 150): one variable per call.
MetricTypeVar(c) == c

\* One Update call from descriptor i on, run without interruption: how it
\* ends and the set of observations it sends.
RECURSIVE RunPaths(_, _, _, _, _)
ranPath(f, metric, ps, k, sent, r) ==
    IF r.err # "nil" THEN [ret |-> r.err, sink |-> sent]
    ELSE RunPaths(f, metric, ps, k + 1, sent \cup Range(r.calls))

RunPaths(f, metric, ps, k, sent) ==
    IF k > Len(ps) THEN [ret |-> "nil", sink |-> sent]
    ELSE ranPath(f, metric, ps, k, sent,
                 CHOOSE x \in parseFile(metric.source, MetricTypeOf(metric.name),
                                        PathAt(ps, k), metric.helpText,
                                        ReadFile(f, PathAt(ps, k))) : TRUE)

RECURSIVE RunUpdate(_, _, _, _)
ranPaths(f, src, i, d) == IF d.ret # "nil" THEN d ELSE RunUpdate(f, src, i + 1, d.sink)

ranGlob(f, src, i, sent, g) ==
    CASE GlobVerdict(g) = "return" -> [ret |-> "err", sink |-> sent]
      [] GlobVerdict(g) = "continue" -> RunUpdate(f, src, i + 1, sent)
      [] OTHER -> ranPaths(f, src, i, RunPaths(f, src.lustreProcMetrics[i], g.paths, 1, sent))

RunUpdate(f, src, i, sent) ==
    IF i > Len(src.lustreProcMetrics) THEN [ret |-> "nil", sink |-> sent]
    ELSE ranGlob(f, src, i, sent,
                 Glob(f, Join(<<src.basePath, src.lustreProcMetrics[i].path,
                                src.lustreProcMetrics[i].name>>)))

IdleCall == [pc |-> "Idle", idx |-> 0, paths |-> <<>>, pidx |-> 0, ret |-> "none",
             sink |-> {}]

InitConc ==
    /\ SourceInit
    /\ UpdateIdle
    /\ NoParse
    /\ procfs \in ConcFs
    /\ call = [c \in Calls |-> IdleCall]
    /\ mt = [c \in Calls |-> "single"]
    /\ alone = RunUpdate(procfs, [basePath |-> basePath,
                              lustreProcMetrics |-> lustreProcMetrics], 1, {})

\* A panic in one goroutine ends the process, and with it every call.
Running == \A c \in Calls : call[c].pc # "Crashed"

CLeave(c, how, result) ==
    call' = [call EXCEPT ![c] = [pc |-> how, idx |-> 0, paths |-> <<>>, pidx |-> 0,
                                 ret |-> result, sink |-> call[c].sink]]

CAfterDescriptor(c, sent) ==
    IF call[c].idx < Len(lustreProcMetrics)
    THEN call' = [call EXCEPT ![c] = [pc |-> "Loop", idx |-> call[c].idx + 1,
                                      paths |-> <<>>, pidx |-> 0, ret |-> "none",
                                      sink |-> sent]]
    ELSE call' = [call EXCEPT ![c] = [pc |-> "Idle", idx |-> 0, paths |-> <<>>,
                                      pidx |-> 0, ret |-> "nil", sink |-> sent]]

\* Line 150.
CUpdateCall(c) ==
    /\ Running
    /\ call[c].pc = "Idle" /\ call[c].ret = "none"
    /\ call' = [call EXCEPT ![c].pc = "Loop", ![c].idx = 1]
    /\ mt' = [mt EXCEPT ![MetricTypeVar(c)] = "single"]
    /\ UNCHANGED <<procfs, alone, srcVars, updVars, parseVars>>

CResolved(c, g) ==
    CASE GlobVerdict(g) = "return" -> CLeave(c, "Idle", "err")
      [] GlobVerdict(g) = "continue" -> CAfterDescriptor(c, call[c].sink)
      [] OTHER -> call' = [call EXCEPT ![c].pc = "Switch", ![c].paths = g.paths,
                                       ![c].pidx = 1]

\* Lines 152-159.
CResolve(c) ==
    /\ Running
    /\ call[c].pc = "Loop"
    /\ CResolved(c, Glob(procfs, Join(<<basePath, lustreProcMetrics[call[c].idx].path,
                                    lustreProcMetrics[call[c].idx].name>>)))
    /\ UNCHANGED <<mt, procfs, alone, srcVars, updVars, parseVars>>

\* Lines 161-166: the switch stores the grammar in metricType.
CSwitch(c) ==
    /\ Running
    /\ call[c].pc = "Switch"
    /\ mt' = [mt EXCEPT ![MetricTypeVar(c)] =
                            MetricTypeOf(lustreProcMetrics[call[c].idx].name)]
    /\ call' = [call EXCEPT ![c].pc = "Parse"]
    /\ UNCHANGED <<procfs, alone, srcVars, updVars, parseVars>>

\* What the channel holds of each outcome of a parseFile call: the
\* observations as a set, the order in which they came left out.
Received(outcomes) == {[err |-> r.err, sent |-> Range(r.calls)] : r \in outcomes}

\* Lines 168-174: parseFile is handed metricType as it is now.
CParse(c) ==
    /\ Running
    /\ call[c].pc = "Parse"
    /\ LET metric == lustreProcMetrics[call[c].idx]
           path == PathAt(call[c].paths, call[c].pidx)
       IN  \E r \in Received(parseFile(metric.source, mt[MetricTypeVar(c)], path,
                                       metric.helpText, ReadFile(procfs, path))) :
            CASE r.err = "panic" -> CLeave(c, "Crashed", "panic")
              [] r.err = "err" -> CLeave(c, "Idle", "err")
              [] OTHER ->
                    IF call[c].pidx < Len(call[c].paths)
                    THEN call' = [call EXCEPT ![c].pc = "Switch",
                                              ![c].pidx = call[c].pidx + 1,
                                              ![c].sink = call[c].sink \cup r.sent]
                    ELSE CAfterDescriptor(c, call[c].sink \cup r.sent)
    /\ UNCHANGED <<mt, procfs, alone, srcVars, updVars, parseVars>>

NextConc == \E c \in Calls : CUpdateCall(c) \/ CResolve(c) \/ CSwitch(c) \/ CParse(c)

SpecConc == InitConc /\ [][NextConc]_vars

\* ================================================================ properties
\* origin[k] names the descriptor and the path that sent sink[k]; a is before
\* b when its descriptor is earlier, or the same and its path earlier.
Before(a, b) == a[1] < b[1] \/ (a[1] = b[1] /\ a[2] < b[2])

NotAfter(a, b) == a = b \/ Before(a, b)

Returned == pc = "Idle" /\ ret # "none"

\* The contents of a stats file that break the line grammar.
MalformedStats == {ReadOK(StatsShort), ReadOK(StatsNotNumeric)}

\* C1 (as stated): once reading or parsing a resolved path has failed, Update
\* has stopped and returned the error, and everything the channel holds was
\* sent by a path before the failing one.
C1_FailFast ==
    failedAt # <<>> =>
        /\ pc = "Idle" /\ ret = "err"
        /\ \A k \in 1..Len(origin) : Before(origin[k], failedAt)

\* C2 (as stated): when Update has returned an error the channel holds no
\* observation of that scrape.
C2_NoPartialResults == (Returned /\ ret = "err") => sink = <<>>

\* C2 (amended): the step in which Update returns an error leaves the channel
\* as it was: what the paths before the failing one sent stays delivered,
\* and the failing path and the later ones add nothing.
C2_DeliveredStaysDelivered ==
    /\ [][ret' = "err" => sink' = sink]_vars
    /\ []((Returned /\ ret = "err") =>
            /\ Len(sink) = Len(origin)
            /\ \A k \in 1..Len(origin) : Before(origin[k], failedAt))

C2_Witness == Returned /\ ret = "err" /\ sink # <<>>

\* C3: a descriptor whose pattern matches nothing sends nothing, is never
\* where the scrape fails, and leaves the loop on the next descriptor (or on
\* "return nil" after the last); when no descriptor matches, Update has
\* returned nil and the channel is empty.
C3_NoMatchNeverAnError ==
    /\ \A k \in 1..Len(origin) : origin[k][1] \notin noMatch
    /\ failedAt # <<>> => failedAt[1] \notin noMatch
    /\ \A d \in noMatch :
        \/ pc \in {"Loop", "Paths"} /\ idx > d
        \/ Returned /\ ret = "nil"
        \/ pc \in {"Idle", "Crashed"} /\ failedAt # <<>> /\ failedAt[1] > d
    /\ noMatch = 1..Len(lustreProcMetrics) =>
            Returned /\ ret = "nil" /\ sink = <<>>

C3_Witness == Returned /\ ret = "nil" /\ noMatch # {} /\ sink # <<>>

\* C6 (as stated): a stats file with a read_bytes line cut short or with a
\* field that is no number makes Update return an error.
C6_MalformedLineReturned ==
    failedRead \in MalformedStats => Returned /\ ret = "err"

\* C7 (as stated): when the walk that expands a pattern met a directory it
\* could not read, the scrape that Update returns from has returned an error.
C7_WalkFailureReturned == (walkFailed /\ Returned) => ret = "err"

\* The names one path sent, in the order the channel received them.
NamesOf(o) ==
    LET at == {k \in 1..Len(sink) : origin[k] = o}
        nth(i) == CHOOSE k \in at : Cardinality({j \in at : j < k}) = i - 1
    IN  [i \in 1..Cardinality(at) |-> sink[nth(i)].name]

Origins == {origin[k] : k \in 1..Len(origin)}

\* C9 (as stated): the channel receives the observations descriptor by
\* descriptor and path by path, and two stats files with the same statistics
\* send them in the same order.
C9_FixedStatisticOrder ==
    /\ \A j, k \in 1..Len(origin) : j < k => NotAfter(origin[j], origin[k])
    /\ \A a, b \in Origins :
        {NamesOf(a)[i] : i \in 1..Len(NamesOf(a))} = {NamesOf(b)[i] : i \in 1..Len(NamesOf(b))}
            => NamesOf(a) = NamesOf(b)

\* C9 (amended): the channel receives the observations descriptor by
\* descriptor and, within a descriptor, path by path in the order of the
\* resolved list; the order of the statistics of one file is not fixed.
C9_DescriptorThenPathOrder ==
    \A j, k \in 1..Len(origin) : j < k => NotAfter(origin[j], origin[k])

C9_Witness ==
    /\ \E j, k \in 1..Len(origin) : origin[j][1] < origin[k][1]
    /\ \E j, k \in 1..Len(origin) : origin[j][1] = origin[k][1] /\ origin[j][2] < origin[k][2]
    /\ \E a, b \in Origins : NamesOf(a) # NamesOf(b) /\ Len(NamesOf(a)) = Len(NamesOf(b))
                               /\ Len(NamesOf(a)) > 1

\* ------------------------------------------------- properties of parseFile
\* parseFile has run on a file that could be read.
Parsed == out.state = "done" /\ arg.rd.err = "nil"

\* The path ends ".../<inst>/<leaf>".
HasInstance ==
    LET n == Len(arg.path)
    IN  n >= 3 /\ arg.path[n] # "/" /\ arg.path[n - 1] = "/" /\ arg.path[n - 2] # "/"

Instance == <<arg.path[Len(arg.path) - 2]>>

Leaf == <<arg.path[Len(arg.path)]>>

\* The four observations of one direction's line, or none without the line.
DirectionObservations(d, c) ==
    IF c = <<>> THEN {}
    ELSE {constMetric(arg.metric.source, Instance, <<d, "_", "samples_total">>,
                      samplesHelp, c[1].fields.samples),
          constMetric(arg.metric.source, Instance, <<d, "_", "minimum_size_bytes">>,
                      minimumHelp, c[1].fields.minimum),
          constMetric(arg.metric.source, Instance, <<d, "_", "maximum_size_bytes">>,
                      maximumHelp, c[1].fields.maximum),
          constMetric(arg.metric.source, Instance, <<d, "_", "total_bytes">>,
                      totalHelp, c[1].fields.total)}

\* The stats files with, for each direction, no line or one well-formed line,
\* each with the numbers its lines were written from.
WellFormedFiles ==
    {[data |-> Lines(<<SnapshotLine>> \o [k \in 1..Len(r) |-> r[k].line]
                                      \o [k \in 1..Len(w) |-> w[k].line]),
      read |-> r, write |-> w] :
        r \in {<<>>} \cup {<<c>> : c \in ReadCases},
        w \in {<<>>} \cup {<<c>> : c \in WriteCases}}

\* C4: on a stats file that holds, for each direction, no line or one
\* well-formed line, parseFile returns nil and sends, for each direction with
\* a line, exactly the four observations of that line's numbers (8, 4 or 0 in
\* all), each once, with the help text of its statistic, the descriptor's
\* node role and the instance name of the path, no two under the same name.
C4_StatsResult ==
    (Parsed /\ arg.metric.name = <<"stats">> /\ HasInstance) =>
        \A f \in WellFormedFiles :
            f.data = arg.rd.data =>
                /\ out.err = "nil"
                /\ Range(out.calls) = DirectionObservations("read", f.read)
                                        \cup DirectionObservations("write", f.write)
                /\ Len(out.calls) = 4 * (Len(f.read) + Len(f.write))
                /\ \A j, k \in 1..Len(out.calls) :
                        out.calls[j].name = out.calls[k].name => j = k

C4_Witness ==
    /\ Parsed /\ arg.metric.name = <<"stats">> /\ HasInstance
    /\ arg.rd.data = Lines(<<SnapshotLine, ReadExample, WriteExample>>)
    /\ Len(out.calls) = 8

\* The content is an unsigned decimal number between optional white space:
\* the atoms that are no white space are digits and lie side by side.
Unpadded(data) ==
    LET inked == {k \in 1..Len(data) : data[k] \notin WhiteSpace}
    IN  IF inked = {} THEN <<>>
        ELSE SubSeq(data, CHOOSE k \in inked : \A j \in inked : k <= j,
                          CHOOSE k \in inked : \A j \in inked : k >= j)

IsUnsigned(data) ==
    /\ \E k \in 1..Len(data) : data[k] \notin WhiteSpace
    /\ \A k \in 1..Len(Unpadded(data)) : Unpadded(data)[k] \in Digit

\* C5: on a file of a descriptor other than "stats" at .../<inst>/<leaf>,
\* parseFile sends exactly one observation when the content is an unsigned
\* decimal number (of fewer digits than the largest uint64) between optional
\* white space: that number, under the name <leaf>, with the descriptor's
\* help text and node role and the instance name <inst>; on a content that
\* is no such number it sends nothing and returns an error.
C5_ScalarResult ==
    (Parsed /\ arg.metric.name # <<"stats">> /\ HasInstance) =>
        /\ (IsUnsigned(arg.rd.data) /\ Len(Unpadded(arg.rd.data)) < Len(MaxUint64)) =>
                /\ out.err = "nil"
                /\ \E v \in 0..(10 ^ Len(Unpadded(arg.rd.data)) - 1) :
                        /\ Decimal(v) = StripZeros(Unpadded(arg.rd.data))
                        /\ out.calls = <<constMetric(arg.metric.source, Instance, Leaf,
                                                     arg.metric.helpText, v)>>
        /\ ~IsUnsigned(arg.rd.data) => out.err = "err" /\ out.calls = <<>>

C5_Witness ==
    /\ Parsed /\ arg.metric.name # <<"stats">> /\ HasInstance
    /\ arg.rd.data = <<" ", "1", "0", " ", "\n">>
    /\ Len(out.calls) = 1 /\ out.calls[1].value = 10

\* C10 (as stated): given a path without a separator, parseFile returns an
\* error and sends nothing.
C10_StructuralError ==
    (out.state = "done" /\ \A k \in 1..Len(arg.path) : arg.path[k] # "/") =>
        out.err = "err" /\ out.calls = <<>>

\* ------------------------------------------ properties of concurrent Update
Finished(c) == call[c].pc \in {"Idle", "Crashed"} /\ call[c].ret # "none"

\* C8: under every interleaving of the calls the registry and basePath are
\* never written, a step of one call writes no variable of another call, and
\* every call that has ended has returned what it returns when run alone
\* against the same filesystem, having sent the same set of observations.
C8_ConcurrentScrapesSafe ==
    /\ [][UNCHANGED <<lustreProcMetrics, basePath>>]_vars
    /\ [][\A c \in Calls :
            (call'[c] # call[c] \/ mt'[c] # mt[c]) =>
                \A d \in Calls \ {c} : call'[d] = call[d] /\ mt'[d] = mt[d]]_vars
    /\ [](\A c \in Calls :
            Finished(c) => call[c].ret = alone.ret /\ call[c].sink = alone.sink)

C8_Witness ==
    /\ call # <<>>
    /\ \A c \in Calls : Finished(c) /\ call[c].ret = "nil"
    /\ \E a, b \in alone.sink :
            a.name = <<"read", "_", "total_bytes">> /\ b.name = <<"kbytesfree">>

====
